---------------------------- MODULE Spec2Model ----------------------------
(***************************************************************************)
(* PokeMCP (src/server.py): seven MCP tool handlers that translate a tool  *)
(* invocation into one or two GET requests against the PokeAPI and reshape *)
(* the JSON answer into a flat record.                                     *)
(*                                                                         *)
(* JSON / Python values are tagged records, so that a missing key, a JSON  *)
(* null, a non-object value and a raised exception stay distinguishable:   *)
(*   [k |-> "null"]            None                                        *)
(*   [k |-> "str", v |-> s]    a string, s a sequence of tokens            *)
(*   [k |-> "num", v |-> n]    an integer                                  *)
(*   [k |-> "arr", v |-> a]    a list, a a sequence of values              *)
(*   [k |-> "obj", v |-> f]    a dict, f a function from its keys          *)
(*   [k |-> "exc", v |-> t]    a raised exception of type t                *)
(* A string is a sequence of tokens (characters where the code looks at    *)
(* characters: identifiers, decimal digits), so lower(), replace() and     *)
(* f-string formatting are computed, not assumed.                          *)
(***************************************************************************)
EXTENDS Integers, Sequences, FiniteSets, TLC

(***************************************************************************)
(* Bounds of the model.                                                    *)
(***************************************************************************)
\* number of invocations the transport may have in flight at once (SpecConc)
NumInv == 2
\* longest effect_entries list of an upstream item record
MaxEntries == 2
\* how many results an upstream page may carry beyond the requested limit
MaxOverrun == 1

(***************************************************************************)
(* JSON and Python values.                                                 *)
(***************************************************************************)
JNull == [k |-> "null"]
JStr(s) == [k |-> "str", v |-> s]
JNum(n) == [k |-> "num", v |-> n]
JArr(a) == [k |-> "arr", v |-> a]
JObj(f) == [k |-> "obj", v |-> f]
Exc(t) == [k |-> "exc", v |-> t]

\* the empty dict {}
EmptyObj == JObj(<<>>)
\* a one-token string
Tok(t) == JStr(<<t>>)

IsExc(x) == x.k = "exc"
IsObj(x) == x.k = "obj"

\* obj extended with key |-> val
With(obj, key, val) == JObj((key :> val) @@ obj.v)

\* Python truthiness: None, "", 0, [] and {} are falsy
Truthy(x) ==
  CASE x.k = "null" -> FALSE
    [] x.k = "str" -> Len(x.v) > 0
    [] x.k = "num" -> x.v # 0
    [] x.k = "arr" -> Len(x.v) > 0
    [] x.k = "obj" -> DOMAIN x.v # {}
    [] OTHER -> FALSE

\* d.get(key, default): only a dict has .get; anything else raises AttributeError.
\* An exception raised while evaluating d propagates.
PyGet(d, key, default) ==
  IF IsExc(d) THEN d
  ELSE IF ~IsObj(d) THEN Exc("AttributeError")
  ELSE IF key \in DOMAIN d.v THEN d.v[key] ELSE default

\* d[key] with a string key: KeyError on a dict without the key, TypeError on
\* None, a list, a string or a number.
PySub(d, key) ==
  IF IsExc(d) THEN d
  ELSE IF ~IsObj(d) THEN Exc("TypeError")
  ELSE IF key \in DOMAIN d.v THEN d.v[key] ELSE Exc("KeyError")

RECURSIVE SetToSeq(_)
SetToSeq(S) ==
  IF S = {} THEN <<>>
  ELSE LET x == CHOOSE y \in S : TRUE IN <<x>> \o SetToSeq(S \ {x})

\* the elements a for-loop or comprehension visits: the items of a list, the
\* keys of a dict, the characters of a string; None and numbers raise TypeError.
\* Returned as a list value, or the exception.
PyIter(x) ==
  CASE x.k = "exc" -> x
    [] x.k = "arr" -> x
    [] x.k = "obj" -> JArr([i \in 1..Cardinality(DOMAIN x.v) |-> Tok(SetToSeq(DOMAIN x.v)[i])])
    [] x.k = "str" -> JArr([i \in 1..Len(x.v) |-> Tok(x.v[i])])
    [] OTHER -> Exc("TypeError")

\* the first exception of a sequence of evaluated expressions (evaluation
\* stops there), or ok when none raised
FirstExc(seq, ok) ==
  IF \E i \in 1..Len(seq) : IsExc(seq[i])
  THEN seq[CHOOSE i \in 1..Len(seq) : IsExc(seq[i]) /\ \A j \in 1..(i - 1) : ~IsExc(seq[j])]
  ELSE ok

(***************************************************************************)
(* Strings.                                                                *)
(***************************************************************************)
\* str.lower() on one character; digits, "-", " " and "/" have no case
LowerChar(c) ==
  CASE c = "P" -> "p"
    [] c = "I" -> "i"
    [] c = "B" -> "b"
    [] OTHER -> c

\* str.lower()
Lower(s) == [i \in 1..Len(s) |-> LowerChar(s[i])]

\* whether old occurs in s at position i
MatchAt(s, old, i) ==
  /\ i + Len(old) - 1 <= Len(s)
  /\ \A j \in 1..Len(old) : s[i + j - 1] = old[j]

RECURSIVE ReplaceFrom(_, _, _, _)
ReplaceFrom(s, old, new, i) ==
  IF i > Len(s) THEN <<>>
  ELSE IF Len(old) > 0 /\ MatchAt(s, old, i)
       THEN new \o ReplaceFrom(s, old, new, i + Len(old))
       ELSE <<s[i]>> \o ReplaceFrom(s, old, new, i + 1)

\* str.replace(old, new): every non-overlapping occurrence, left to right
Replace(s, old, new) == ReplaceFrom(s, old, new, 1)

DigitChar(d) == <<"0", "1", "2", "3", "4", "5", "6", "7", "8", "9">>[d + 1]

RECURSIVE NatStr(_)
NatStr(n) == IF n < 10 THEN <<DigitChar(n)>> ELSE NatStr(n \div 10) \o <<DigitChar(n % 10)>>

\* str(n) / f"{n}" of an integer
IntStr(n) == IF n < 0 THEN <<"-">> \o NatStr(0 - n) ELSE NatStr(n)

\* str(x) of a tool argument: a string is itself, an integer its decimal form
PyStr(x) == IF x.k = "num" THEN IntStr(x.v) ELSE x.v


(***************************************************************************)
(* The fetch helper.                                                       *)
(***************************************************************************)
POKEAPI_BASE_URL == <<"https://pokeapi.co/api/v2">>

\* What one GET can come to: a 4xx/5xx status with a body text, a transport
\* failure, a 2xx answer whose body is no JSON, a 2xx answer with a JSON value.
Status(code, text) == [o |-> "status", code |-> code, text |-> text]
Transport == [o |-> "transport", cause |-> <<"connect failed">>]
BadJson == [o |-> "badjson", cause |-> <<"Expecting value">>]
Json(body) == [o |-> "json", body |-> body]

\* the URL fetch_from_pokeapi requests: f"{POKEAPI_BASE_URL}{endpoint}"
RequestUrl(endpoint) == POKEAPI_BASE_URL \o endpoint

\* variant: the status code left out of the message
StatusMessageWithoutCode(code) == <<"API request failed">>

\* the message of the error dict for an HTTPStatusError
StatusMessage(code) == <<"API request failed with status ">> \o IntStr(code)

\* what fetch_from_pokeapi returns for the outcome of its GET
FetchResult(outcome) ==
  CASE outcome.o = "status" ->
         JObj([error |-> JStr(StatusMessage(outcome.code)), details |-> JStr(outcome.text)])
    [] outcome.o = "transport" ->
         JObj([error |-> Tok("API request error"), details |-> JStr(outcome.cause)])
    [] outcome.o = "badjson" ->
         JObj([error |-> Tok("An unexpected error occurred"), details |-> JStr(outcome.cause)])
    [] OTHER -> outcome.body

\* the handlers' test `if data.get("error")`; an exception when data is no dict
ErrorField(data) == PyGet(data, "error", JNull)

\* the error dict of a handler's `except Exception as e` branch
\* (details stands for str(e): the exception is carried by its type; the
\* messages are written here in ASCII, "Pokemon" for the source's "Pok\'emon")
Failed(message, e) == JObj([error |-> Tok(message), details |-> Tok(e.v)])

(***************************************************************************)
(* The handlers' bodies after their fetch has returned `data`.  Each gives *)
(* the value the handler returns, or the exception that leaves it.         *)
(***************************************************************************)
\* [el[k1][k2] for el in it]
ListOfNested(it, k1, k2) ==
  IF IsExc(it) THEN it
  ELSE LET vals == [i \in 1..Len(it.v) |-> PySub(PySub(it.v[i], k1), k2)]
       IN FirstExc(vals, JArr(vals))

\* [el[key] for el in it]
ListOfKey(it, key) ==
  IF IsExc(it) THEN it
  ELSE LET vals == [i \in 1..Len(it.v) |-> PySub(it.v[i], key)]
       IN FirstExc(vals, JArr(vals))

\* a dict key must be hashable: a list or a dict is not
HashKey(x) == IF x.k \in {"arr", "obj"} THEN Exc("TypeError") ELSE x

\* {s['stat']['name']: s['base_stat'] for s in it}: a later entry of the same
\* name overwrites an earlier one
StatsDict(it) ==
  IF IsExc(it) THEN it
  ELSE LET raw == [i \in 1..Len(it.v) |-> PySub(PySub(it.v[i], "stat"), "name")]
           vals == [i \in 1..Len(it.v) |-> PySub(it.v[i], "base_stat")]
           \* per entry: the key expression, the value expression, then the store
           evals == [i \in 1..(3 * Len(it.v)) |->
                       CASE i % 3 = 1 -> raw[(i + 2) \div 3]
                         [] i % 3 = 2 -> vals[(i + 1) \div 3]
                         [] OTHER -> HashKey(raw[i \div 3])]
           last(n) == CHOOSE i \in 1..Len(raw) :
                        raw[i] = n /\ \A j \in (i + 1)..Len(raw) : raw[j] # n
       IN FirstExc(evals, [k |-> "dict",
                           v |-> [n \in {raw[i] : i \in 1..Len(raw)} |-> vals[last(n)]]])

\* lines 88-90: the official artwork, else the default sprite
SpriteUrl(data) ==
  LET official == PyGet(PyGet(PyGet(PyGet(data, "sprites", EmptyObj), "other", EmptyObj),
                              "official-artwork", EmptyObj), "front_default", JNull)
  IN IF IsExc(official) THEN official
     ELSE IF ~Truthy(official)
          THEN PyGet(PyGet(data, "sprites", EmptyObj), "front_default", JNull)
          ELSE official

DetailsRecord(data) ==
  LET types == ListOfNested(PyIter(PyGet(data, "types", JArr(<<>>))), "type", "name")
      stats == StatsDict(PyIter(PyGet(data, "stats", JArr(<<>>))))
      sprite_url == SpriteUrl(data)
  IN FirstExc(<<types, stats, sprite_url>>,
       JObj([id |-> PyGet(data, "id", JNull), name |-> PyGet(data, "name", JNull),
             height |-> PyGet(data, "height", JNull), weight |-> PyGet(data, "weight", JNull),
             types |-> types, stats |-> stats, sprite_url |-> sprite_url]))

\* get_pokemon_details from line 82 on
DetailsBody(data) ==
  LET err == ErrorField(data) IN
  IF IsExc(err) THEN err
  ELSE IF Truthy(err) THEN data
  ELSE LET r == DetailsRecord(data)
       IN IF IsExc(r) THEN Failed("Failed to process Pokemon data", r) ELSE r

TypesRecord(data) ==
  LET types == ListOfNested(PyIter(PyGet(data, "types", JArr(<<>>))), "type", "name")
  IN FirstExc(<<types>>,
       JObj([name |-> PyGet(data, "name", JNull), id |-> PyGet(data, "id", JNull),
             types |-> types]))

\* get_pokemon_types from line 126 on
TypesBody(data) ==
  LET err == ErrorField(data) IN
  IF IsExc(err) THEN err
  ELSE IF Truthy(err) THEN data
  ELSE LET r == TypesRecord(data)
       IN IF IsExc(r) THEN Failed("Failed to process Pokemon types", r) ELSE r

(***************************************************************************)
(* The species resolver, get_species_data.  After its first fetch it either*)
(* returns a value, raises, or goes on to a second fetch.                  *)
(***************************************************************************)
\* line 157: species_url.replace(POKEAPI_BASE_URL, ""); only a string has .replace
RelativeSpeciesEndpoint(species_url) ==
  IF species_url.k = "str" THEN JStr(Replace(species_url.v, POKEAPI_BASE_URL, <<>>))
  ELSE Exc("AttributeError")

\* variant: the resolver without its check of the first fetch's error
SpeciesAfterFirstUnchecked(pokemon_data) ==
  LET species_url == PyGet(PyGet(pokemon_data, "species", EmptyObj), "url", JNull)
      relative == RelativeSpeciesEndpoint(species_url)
  IN IF IsExc(species_url) THEN [step |-> "return", val |-> species_url]
     ELSE IF ~Truthy(species_url)
          THEN [step |-> "return",
                val |-> JObj([error |-> Tok("Species URL not found"),
                              name |-> PyGet(pokemon_data, "name", JNull)])]
     ELSE IF IsExc(relative) THEN [step |-> "return", val |-> relative]
     ELSE [step |-> "fetch", endpoint |-> relative.v]

\* lines 144-160: [step |-> "return", val |-> v] (v a value or an exception) or
\* [step |-> "fetch", endpoint |-> e]
SpeciesAfterFirst(pokemon_data) ==
  LET err == ErrorField(pokemon_data)
      species_url == PyGet(PyGet(pokemon_data, "species", EmptyObj), "url", JNull)
      relative == RelativeSpeciesEndpoint(species_url)
  IN IF IsExc(err) THEN [step |-> "return", val |-> err]
     ELSE IF Truthy(err) THEN [step |-> "return", val |-> pokemon_data]
     ELSE IF IsExc(species_url) THEN [step |-> "return", val |-> species_url]
     ELSE IF ~Truthy(species_url)
          THEN [step |-> "return",
                val |-> JObj([error |-> Tok("Species URL not found"),
                              name |-> PyGet(pokemon_data, "name", JNull)])]
     ELSE IF IsExc(relative) THEN [step |-> "return", val |-> relative]
     ELSE [step |-> "fetch", endpoint |-> relative.v]

\* the name a color/shape record falls back to: str(pokemon_name_or_id)
FallbackName(id) == JStr(PyStr(id))

\* lines 186-190 and 218-222, attr "color" or "shape"
AttributeRecord(id, data, attr, notFound) ==
  LET value == PyGet(PyGet(data, attr, EmptyObj), "name", JNull)
  IN IF IsExc(value) THEN value
     ELSE IF ~Truthy(value)
          THEN JObj([error |-> Tok(notFound), name |-> PyGet(data, "name", JNull)])
          ELSE With(JObj([name |-> PyGet(data, "name", FallbackName(id)),
                          id |-> PyGet(data, "id", JNull)]), attr, value)

\* get_pokemon_color (from line 183) and get_pokemon_shape (from line 215) on
\* what get_species_data gave; an exception of get_species_data passes through
AttributeBody(id, data, attr, notFound, failed) ==
  LET err == ErrorField(data) IN
  IF IsExc(err) THEN err
  ELSE IF Truthy(err) THEN data
  ELSE LET r == AttributeRecord(id, data, attr, notFound)
       IN IF IsExc(r) THEN Failed(failed, r) ELSE r

ColorBody(id, data) ==
  AttributeBody(id, data, "color", "Color not found in species data",
                "Failed to process Pokemon color")

ShapeBody(id, data) ==
  AttributeBody(id, data, "shape", "Shape not found in species data",
                "Failed to process Pokemon shape")

(***************************************************************************)
(* The listings and the item handler.                                      *)
(***************************************************************************)
ListingRecord(data, namesKey) ==
  LET names == ListOfKey(PyIter(PyGet(data, "results", JArr(<<>>))), "name")
  IN FirstExc(<<names>>, With(JObj([count |-> PyGet(data, "count", JNull)]), namesKey, names))

\* list_all_pokemon_names from line 248 on, list_all_items from line 323 on
ListingBody(data, namesKey, failed) ==
  LET err == ErrorField(data) IN
  IF IsExc(err) THEN err
  ELSE IF Truthy(err) THEN data
  ELSE LET r == ListingRecord(data, namesKey)
       IN IF IsExc(r) THEN Failed(failed, r) ELSE r

\* variant: the loop without its break: the last English entry wins
RECURSIVE ShortEffectLast(_, _)
ShortEffectLast(entries, i) ==
  IF i > Len(entries) THEN Tok("N/A")
  ELSE LET lang == PyGet(PyGet(entries[i], "language", EmptyObj), "name", JNull)
           rest == ShortEffectLast(entries, i + 1)
       IN IF IsExc(lang) THEN lang
          ELSE IF lang = Tok("en") /\ rest = Tok("N/A")
               THEN PyGet(entries[i], "short_effect", Tok("N/A"))
          ELSE rest

\* lines 286-290: the loop over effect_entries from entry i on, with its break
RECURSIVE ShortEffectFrom(_, _)
ShortEffectFrom(entries, i) ==
  IF i > Len(entries) THEN Tok("N/A")
  ELSE LET lang == PyGet(PyGet(entries[i], "language", EmptyObj), "name", JNull)
       IN IF IsExc(lang) THEN lang
          ELSE IF lang = Tok("en") THEN PyGet(entries[i], "short_effect", Tok("N/A"))
          ELSE ShortEffectFrom(entries, i + 1)

ShortEffect(data) ==
  LET it == PyIter(PyGet(data, "effect_entries", JArr(<<>>)))
  IN IF IsExc(it) THEN it ELSE ShortEffectFrom(it.v, 1)

ItemRecord(data) ==
  LET short_effect_english == ShortEffect(data)
      sprite_url == PyGet(PyGet(data, "sprites", EmptyObj), "default", JNull)
      category == PyGet(PyGet(data, "category", EmptyObj), "name", JNull)
  IN FirstExc(<<short_effect_english, sprite_url, category>>,
       JObj([id |-> PyGet(data, "id", JNull), name |-> PyGet(data, "name", JNull),
             cost |-> PyGet(data, "cost", JNum(0)), category |-> category,
             short_effect |-> short_effect_english, sprite_url |-> sprite_url]))

\* get_item_details from line 282 on
ItemBody(data) ==
  LET err == ErrorField(data) IN
  IF IsExc(err) THEN err
  ELSE IF Truthy(err) THEN data
  ELSE LET r == ItemRecord(data)
       IN IF IsExc(r) THEN Failed("Failed to process item data", r) ELSE r

(***************************************************************************)
(* Arguments and endpoints.                                                *)
(***************************************************************************)
\* a parameter the caller left out takes its declared default
Omitted == [k |-> "omitted"]
ParamOr(a, default) == IF a.k = "omitted" THEN default ELSE a.v

\* lines 79 / 123 / 141: str(pokemon_name_or_id).lower()
PokemonIdentifier(id) == Lower(PyStr(id))
\* lines 277-279: lower-cased, then spaces replaced by hyphens
ItemIdentifier(id) == Replace(Lower(PyStr(id)), <<" ">>, <<"-">>)

PokemonEndpoint(id) == <<"/pokemon/">> \o PokemonIdentifier(id) \o <<"/">>
ItemEndpoint(id) == <<"/item/">> \o ItemIdentifier(id) \o <<"/">>
\* variant: a negative limit or offset clamped to 0
ListEndpointClamped(resource, limit, offset) ==
  <<resource, "?limit=">> \o IntStr(IF limit < 0 THEN 0 ELSE limit)
    \o <<"&offset=">> \o IntStr(IF offset < 0 THEN 0 ELSE offset)

ListEndpoint(resource, limit, offset) ==
  <<resource, "?limit=">> \o IntStr(limit) \o <<"&offset=">> \o IntStr(offset)

PokemonListDefaultLimit == 2000
ItemListDefaultLimit == 100
ListDefaultOffset == 0

IdTools == {"get_pokemon_details", "get_pokemon_types", "get_pokemon_color",
            "get_pokemon_shape", "get_item_details"}
SpeciesTools == {"get_pokemon_color", "get_pokemon_shape"}
ListTools == {"list_all_pokemon_names", "list_all_items"}
Tools == IdTools \cup ListTools

\* the endpoint of a handler's first fetch
FirstEndpoint(t, a) ==
  CASE t = "get_item_details" -> ItemEndpoint(a.id)
    [] t = "list_all_pokemon_names" ->
         ListEndpoint("/pokemon", ParamOr(a.limit, PokemonListDefaultLimit),
                      ParamOr(a.offset, ListDefaultOffset))
    [] t = "list_all_items" ->
         ListEndpoint("/item", ParamOr(a.limit, ItemListDefaultLimit),
                      ParamOr(a.offset, ListDefaultOffset))
    [] OTHER -> PokemonEndpoint(a.id)

\* what a handler without a second fetch does with the data of its fetch
DirectBody(t, data) ==
  CASE t = "get_pokemon_details" -> DetailsBody(data)
    [] t = "get_pokemon_types" -> TypesBody(data)
    [] t = "get_item_details" -> ItemBody(data)
    [] t = "list_all_pokemon_names" ->
         ListingBody(data, "pokemon_names", "Failed to process Pokemon list")
    [] OTHER -> ListingBody(data, "item_names", "Failed to process item list")

\* what a color/shape handler does with what get_species_data gave it
SpeciesBody(t, id, data) ==
  IF t = "get_pokemon_color" THEN ColorBody(id, data) ELSE ShapeBody(id, data)

(***************************************************************************)
(* What callers pass and what the upstream may answer.  The upstream is    *)
(* outside the program: any status, any failure, any JSON value.  The sets *)
(* below vary one part of a well-formed PokeAPI record at a time over      *)
(* present / missing / null / wrong shape.                                 *)
(***************************************************************************)
\* a key left out of an object under construction
Missing == [k |-> "missing"]
Put(f, key, val) == IF val.k = "missing" THEN f ELSE (key :> val) @@ f
Object1(k1, v1) == JObj(Put(<<>>, k1, v1))
Object2(k1, v1, k2, v2) == JObj(Put(Put(<<>>, k1, v1), k2, v2))
\* obj with key set to val, or removed when val is Missing
Vary(obj, key, val) ==
  JObj(Put([x \in DOMAIN obj.v \ {key} |-> obj.v[x]], key, val))

PokemonIds == {JStr(<<"p", "i">>), JStr(<<"P", "i">>), JNum(25)}
ItemIds == {JStr(<<"p", "-", "b">>), JStr(<<"P", " ", "B">>), JStr(<<"p", " ", "b">>)}
Given(n) == [k |-> "given", v |-> n]
ListArgs == [limit : {Omitted, Given(-1), Given(5), Given(100000)},
             offset : {Omitted, Given(-3), Given(20)}]

ArgsOf(t) ==
  CASE t \in ListTools -> ListArgs
    [] t = "get_item_details" -> [id : ItemIds]
    [] OTHER -> [id : PokemonIds]

Failures == {Status(404, <<"Not Found">>), Status(500, <<"Internal Server Error">>),
             Transport, BadJson}
NonObjects == {Json(JNull), Json(JArr(<<>>))}

SpeciesPath == <<"/pokemon-species/", "2", "5", "/">>
SpeciesUrls ==
  { Missing, JNull, JStr(<<>>), JNum(25),
    JStr(POKEAPI_BASE_URL \o SpeciesPath),
    JStr(POKEAPI_BASE_URL \o SpeciesPath \o <<"?from=">> \o POKEAPI_BASE_URL),
    JStr(<<"https://mirror.example/api/v2">> \o SpeciesPath) }
SpeciesRefs ==
  {Missing, JNull} \cup {Object2("name", Tok("pikachu"), "url", u) : u \in SpeciesUrls}

FrontDefaults == {Missing, JNull, JStr(<<>>), Tok("http://x/official.png")}
OfficialArtworks == {Missing, JNull} \cup {Object1("front_default", f) : f \in FrontDefaults}
Others == {Missing, JNull} \cup {Object1("official-artwork", a) : a \in OfficialArtworks}
SpritesValues ==
  {Missing, JNull} \cup
  {Object2("other", o, "front_default", f) :
     o \in Others, f \in {Missing, JNull, Tok("http://x/y.png")}}

TypeEntry(n) == Object1("type", Object1("name", Tok(n)))
TypesValues ==
  { Missing, JNull, JArr(<<>>), JArr(<<TypeEntry("electric")>>),
    JArr(<<TypeEntry("grass"), TypeEntry("poison")>>),
    JArr(<<TypeEntry("grass"), EmptyObj>>), JArr(<<JNull>>), EmptyObj }

StatEntry(n, b) == Object2("stat", Object1("name", Tok(n)), "base_stat", JNum(b))
StatsValues ==
  { Missing, JNull, JArr(<<StatEntry("hp", 35), StatEntry("attack", 55)>>),
    JArr(<<StatEntry("hp", 35), StatEntry("hp", 40)>>),
    JArr(<<Object1("stat", Object1("name", JArr(<<>>)))>>),
    JArr(<<Object1("stat", Object1("name", Tok("hp")))>>) }

Pikachu ==
  JObj([id |-> JNum(25), name |-> Tok("pikachu"), height |-> JNum(4), weight |-> JNum(60),
        types |-> JArr(<<TypeEntry("electric")>>),
        stats |-> JArr(<<StatEntry("hp", 35)>>),
        sprites |-> Object2("other", Object1("official-artwork",
                                             Object1("front_default", Tok("http://x/official.png"))),
                            "front_default", Tok("http://x/y.png")),
        species |-> Object2("name", Tok("pikachu"), "url", JStr(POKEAPI_BASE_URL \o SpeciesPath))])

\* an upstream body that itself carries an "error" key
ErrorValues == {JNull, JStr(<<>>), Tok("rate limited"), JNum(1)}

CreatureBodies ==
  {EmptyObj}
  \cup {Vary(Pikachu, "sprites", x) : x \in SpritesValues}
  \cup {Vary(Pikachu, "types", x) : x \in TypesValues}
  \cup {Vary(Pikachu, "stats", x) : x \in StatsValues}
  \cup {Vary(Pikachu, "species", x) : x \in SpeciesRefs}
  \cup {Vary(Pikachu, "id", x) : x \in {Missing, JNull}}
  \cup {Vary(Pikachu, "error", x) : x \in ErrorValues}

PikachuSpecies ==
  JObj([id |-> JNum(25), name |-> Tok("pikachu"), color |-> Object1("name", Tok("yellow")),
        shape |-> Object1("name", Tok("quadruped"))])

AttributeValues == {Missing, JNull, EmptyObj, Object1("name", JNull), Object1("name", Tok("red"))}

SpeciesBodies ==
  {EmptyObj}
  \cup {Vary(PikachuSpecies, "color", x) : x \in AttributeValues}
  \cup {Vary(PikachuSpecies, "shape", x) : x \in AttributeValues}
  \cup {Vary(PikachuSpecies, "name", x) : x \in {Missing, JNull}}
  \cup {Vary(PikachuSpecies, "id", x) : x \in {Missing, JNull}}
  \cup {Vary(PikachuSpecies, "error", x) : x \in ErrorValues}

Languages == {Missing, JNull, EmptyObj, Object1("name", Tok("en")), Object1("name", Tok("ja"))}
EffectEntry(lang, short) == Object2("language", lang, "short_effect", short)
EffectEntries ==
  {EffectEntry(l, Tok("effect A")) : l \in Languages}
  \cup {EffectEntry(Object1("name", Tok("en")), x) : x \in {Missing, JNull, Tok("effect B")}}
  \cup {JNull}
EntryLists == UNION {[1..n -> EffectEntries] : n \in 0..MaxEntries}
EffectValues == {Missing, JNull} \cup {JArr(l) : l \in EntryLists}

PokeBall ==
  JObj([id |-> JNum(4), name |-> Tok("poke-ball"), cost |-> JNum(200),
        category |-> Object1("name", Tok("standard-balls")),
        effect_entries |-> JArr(<<EffectEntry(Object1("name", Tok("en")), Tok("effect A"))>>),
        sprites |-> Object1("default", Tok("http://x/ball.png"))])

ItemBodies ==
  {EmptyObj}
  \cup {Vary(PokeBall, "effect_entries", x) : x \in EffectValues}
  \cup {Vary(PokeBall, "cost", x) : x \in {Missing, JNull, JNum(0)}}
  \cup {Vary(PokeBall, "category", x) : x \in {Missing, JNull, EmptyObj}}
  \cup {Vary(PokeBall, "sprites", x) : x \in {Missing, JNull, EmptyObj}}
  \cup {Vary(PokeBall, "error", x) : x \in ErrorValues}

\* a page of n well-formed results
Page(n) == JArr([i \in 1..n |-> Object2("name", JStr(<<"n">> \o IntStr(i)), "url", Tok("u"))])
\* the upstream is asked for a limit; nothing makes it keep to it
PageLengths ==
  {0, 2, PokemonListDefaultLimit}
  \cup {PokemonListDefaultLimit + d : d \in 1..MaxOverrun}
ResultsValues ==
  {Missing, JNull, JArr(<<Object1("name", Tok("bulbasaur")), EmptyObj>>)}
  \cup {Page(n) : n \in PageLengths}
ListBodies ==
  {EmptyObj}
  \cup {Object2("count", c, "results", r) : c \in {Missing, JNum(1302), JNum(3000)},
                                            r \in ResultsValues}

\* what the upstream may answer to a handler's first fetch
FirstOutcomes(t) ==
  Failures \cup NonObjects \cup
  {Json(b) : b \in CASE t \in ListTools -> ListBodies
                     [] t = "get_item_details" -> ItemBodies
                     [] OTHER -> CreatureBodies}

\* what the upstream may answer to the species resolver's second fetch
SecondOutcomes == Failures \cup NonObjects \cup {Json(b) : b \in SpeciesBodies}

\* the whole of the above, and a small part of it for several invocations at once
Full ==
  [args |-> [t \in Tools |-> ArgsOf(t)],
   first |-> [t \in Tools |-> FirstOutcomes(t)],
   second |-> SecondOutcomes]

Lean ==
  [args |-> [t \in Tools |->
               CASE t \in ListTools -> {[limit |-> Omitted, offset |-> Omitted]}
                 [] t = "get_item_details" -> [id : {JStr(<<"p", "-", "b">>), JStr(<<"P", " ", "B">>)}]
                 [] OTHER -> [id : {JStr(<<"p", "i">>), JStr(<<"P", "i">>)}]],
   first |-> [t \in Tools |->
                {Status(404, <<"Not Found">>), Json(JNull)} \cup
                {Json(b) : b \in CASE t \in ListTools ->
                                        {Object2("count", JNum(1302), "results", Page(2))}
                                   [] t = "get_item_details" -> {PokeBall}
                                   [] OTHER -> {Pikachu}}],
   second |-> {Status(500, <<"Internal Server Error">>), Json(PikachuSpecies),
               Json(Vary(PikachuSpecies, "name", Missing))}]

(***************************************************************************)
(* The server: each invocation is a coroutine that is suspended exactly at *)
(* `await client.get(...)`; between two such points its code runs without  *)
(* interleaving (one event loop).                                          *)
(***************************************************************************)
VARIABLES
  pc,      \* per invocation: "idle", "fetch1", "fetch2", "returned", "raised"
  tool,    \* the handler invoked
  arg,     \* its arguments
  reqs,    \* the URLs it has requested so far, in order
  resps,   \* what the upstream answered to them, in order
  result   \* the record it returned, or the exception that left it

vars == <<pc, tool, arg, reqs, resps, result>>

Invocations == DOMAIN pc

InitOver(I) ==
  /\ pc = [i \in I |-> "idle"]
  /\ tool = [i \in I |-> "get_pokemon_details"]
  /\ arg = [i \in I |-> [id |-> JNum(25)]]
  /\ reqs = [i \in I |-> <<>>]
  /\ resps = [i \in I |-> <<>>]
  /\ result = [i \in I |-> JNull]

\* variant: a module-level cache: an invocation resumes with the first answer
\* any invocation in progress has received
ResumeFromSharedCache(i, outcome) ==
  LET holders == {j \in Invocations : Len(resps[j]) > 0}
  IN IF holders = {} THEN outcome ELSE resps[CHOOSE j \in holders : TRUE][1]

\* lines 42-43: the client, the request and the response are locals of the
\* call; the coroutine resumes with the answer to its own request
Resume(i, outcome) == outcome

\* how an invocation ends with what its handler produced
Finish(i, res) ==
  /\ pc' = [pc EXCEPT ![i] = IF IsExc(res) THEN "raised" ELSE "returned"]
  /\ result' = [result EXCEPT ![i] = res]

\* The transport dispatches a tool call; the handler normalizes its argument
\* and runs up to its first `await client.get`.
Invoke(i, W) ==
  /\ pc[i] \in {"idle", "returned", "raised"}
  /\ \E t \in Tools : \E a \in W.args[t] :
       /\ tool' = [tool EXCEPT ![i] = t]
       /\ arg' = [arg EXCEPT ![i] = a]
       /\ reqs' = [reqs EXCEPT ![i] = <<RequestUrl(FirstEndpoint(t, a))>>]
  /\ pc' = [pc EXCEPT ![i] = "fetch1"]
  /\ resps' = [resps EXCEPT ![i] = <<>>]
  /\ result' = [result EXCEPT ![i] = JNull]

\* The only fetch of details, types, item and the listings is answered; the
\* handler runs to its end.
DirectResponse(i, W) ==
  /\ pc[i] = "fetch1"
  /\ tool[i] \notin SpeciesTools
  /\ \E o \in W.first[tool[i]] :
       /\ resps' = [resps EXCEPT ![i] = Append(@, o)]
       /\ Finish(i, DirectBody(tool[i], FetchResult(Resume(i, o))))
  /\ UNCHANGED <<tool, arg, reqs>>

\* The first fetch of get_species_data is answered: the resolver returns to
\* the color/shape handler, which runs to its end, or issues its second fetch.
SpeciesFirstResponse(i, W) ==
  /\ pc[i] = "fetch1"
  /\ tool[i] \in SpeciesTools
  /\ \E o \in W.first[tool[i]] :
       LET st == SpeciesAfterFirst(FetchResult(Resume(i, o))) IN
       /\ resps' = [resps EXCEPT ![i] = Append(@, o)]
       /\ IF st.step = "fetch"
          THEN /\ pc' = [pc EXCEPT ![i] = "fetch2"]
               /\ reqs' = [reqs EXCEPT ![i] = Append(@, RequestUrl(st.endpoint))]
               /\ UNCHANGED result
          ELSE /\ Finish(i, SpeciesBody(tool[i], arg[i].id, st.val))
               /\ UNCHANGED reqs
  /\ UNCHANGED <<tool, arg>>

\* The second fetch of get_species_data is answered; its result goes to the
\* color/shape handler, which runs to its end.
SpeciesSecondResponse(i, W) ==
  /\ pc[i] = "fetch2"
  /\ \E o \in W.second :
       /\ resps' = [resps EXCEPT ![i] = Append(@, o)]
       /\ Finish(i, SpeciesBody(tool[i], arg[i].id, FetchResult(Resume(i, o))))
  /\ UNCHANGED <<tool, arg, reqs>>

\* one invocation at a time, against everything the upstream may answer
Init == InitOver({1})
Next ==
  \/ \E i \in Invocations : Invoke(i, Full)
  \/ \E i \in Invocations : DirectResponse(i, Full)
  \/ \E i \in Invocations : SpeciesFirstResponse(i, Full)
  \/ \E i \in Invocations : SpeciesSecondResponse(i, Full)
Spec == Init /\ [][Next]_vars

\* NumInv invocations in flight at once
InitConc == InitOver(1..NumInv)
NextConc ==
  \/ \E i \in Invocations : Invoke(i, Lean)
  \/ \E i \in Invocations : DirectResponse(i, Lean)
  \/ \E i \in Invocations : SpeciesFirstResponse(i, Lean)
  \/ \E i \in Invocations : SpeciesSecondResponse(i, Lean)
SpecConc == InitConc /\ [][NextConc]_vars

(***************************************************************************)
(* Vocabulary of the properties.                                           *)
(***************************************************************************)
Done(i) == pc[i] \in {"returned", "raised"}
PokemonTools == {"get_pokemon_details", "get_pokemon_types", "get_pokemon_color",
                 "get_pokemon_shape"}

\* whether sub occurs in the string s
Contains(s, sub) == \E p \in 1..Len(s) : MatchAt(s, sub, p)

\* the fields a success record of each handler must carry, populated
RequiredFields(t) ==
  CASE t = "get_pokemon_details" -> {"id", "name", "height", "weight", "types", "stats"}
    [] t = "get_pokemon_types" -> {"name", "id", "types"}
    [] t = "get_pokemon_color" -> {"name", "color"}
    [] t = "get_pokemon_shape" -> {"name", "shape"}
    [] t = "list_all_pokemon_names" -> {"count", "pokemon_names"}
    [] t = "list_all_items" -> {"count", "item_names"}
    [] OTHER -> {"id", "name", "cost", "category", "short_effect"}

\* a success record: every required field present and not null, no error field
IsSuccessRecord(t, r) ==
  /\ IsObj(r)
  /\ "error" \notin DOMAIN r.v
  /\ \A f \in RequiredFields(t) : f \in DOMAIN r.v /\ r.v[f].k # "null"

\* an error record: an error field that is a non-empty message
IsErrorRecord(r) ==
  /\ IsObj(r)
  /\ "error" \in DOMAIN r.v
  /\ r.v["error"].k = "str"
  /\ Len(r.v["error"].v) > 0

\* the code's own test for "this fetch returned an error"
IsFetchError(data) == IsObj(data) /\ Truthy(ErrorField(data))

\* v[key] when v is an object carrying key, null otherwise
Dig(v, key) == IF IsObj(v) /\ key \in DOMAIN v.v THEN v.v[key] ELSE JNull

\* the upstream answered invocation i's n-th request with a JSON object
AnsweredObject(i, n) ==
  /\ Len(resps[i]) >= n
  /\ resps[i][n].o = "json"
  /\ IsObj(resps[i][n].body)

(***************************************************************************)
(* C1.  Every invocation of each of the seven handlers, whatever the       *)
(* upstream does, ends by returning a record: no invocation ends with an   *)
(* uncaught exception.                                                     *)
(***************************************************************************)
C1_NeverRaises == \A i \in Invocations : pc[i] # "raised"

(***************************************************************************)
(* C2.  Every returned record is either a success record with every field  *)
(* of its type populated and no error field, or an error record with a     *)
(* non-empty message; never a record that is neither or both.              *)
(***************************************************************************)
C2_SuccessOrError ==
  \A i \in Invocations :
    pc[i] = "returned" =>
      (IsSuccessRecord(tool[i], result[i]) \/ IsErrorRecord(result[i]))
      /\ ~(IsErrorRecord(result[i]) /\
           \E f \in RequiredFields(tool[i]) \ {"name"} : f \in DOMAIN result[i].v)

(***************************************************************************)
(* C3.  When GET /pokemon/{id}/ answers 404, details, types, color and     *)
(* shape each return the fetch helper's error record, whose error field    *)
(* contains "404"; none returns a success record.                          *)
(***************************************************************************)
Got404(i) ==
  /\ tool[i] \in PokemonTools
  /\ Len(resps[i]) >= 1
  /\ resps[i][1].o = "status"
  /\ resps[i][1].code = 404

\* C3: after a 404 to the creature fetch the invocation has returned the
\* fetch helper's error record, whose error names 404
C3_NotFoundIsReported ==
  \A i \in Invocations :
    Got404(i) =>
      /\ pc[i] = "returned"
      /\ IsErrorRecord(result[i])
      /\ Contains(result[i].v["error"].v, <<"4", "0", "4">>)
      /\ DOMAIN result[i].v = {"error", "details"}
      /\ result[i].v["details"] = JStr(resps[i][1].text)
      /\ ~IsSuccessRecord(tool[i], result[i])

C3_Witness ==
  \E i \in Invocations :
    Got404(i) /\ tool[i] = "get_pokemon_color" /\ pc[i] = "returned"

(***************************************************************************)
(* C4.  Species resolution is two sequential fetches: when the first one   *)
(* succeeds and the creature carries species.url = base_url + P, the       *)
(* second request goes to exactly P, so that the URL requested is the      *)
(* original species.url, and the resolver's result is the answer to that   *)
(* second request, never the creature record.                              *)
(***************************************************************************)
\* the creature record answered to i carries species.url = base_url + P
SpeciesUrlUnderBase(i) ==
  /\ tool[i] \in SpeciesTools
  /\ AnsweredObject(i, 1)
  /\ "error" \notin DOMAIN resps[i][1].body.v
  /\ LET url == Dig(Dig(resps[i][1].body, "species"), "url")
     IN url.k = "str" /\ MatchAt(url.v, POKEAPI_BASE_URL, 1)

\* C4: the second request is the original species.url and the result is the
\* answer to it
C4_SecondFetchIsSpeciesUrl ==
  \A i \in Invocations :
    SpeciesUrlUnderBase(i) =>
      /\ Len(reqs[i]) = 2
      /\ reqs[i][2] = Dig(Dig(resps[i][1].body, "species"), "url").v
      /\ reqs[i][1] = RequestUrl(<<"/pokemon/">> \o PokemonIdentifier(arg[i].id) \o <<"/">>)
      /\ Done(i) => /\ Len(resps[i]) = 2
                    /\ result[i] = SpeciesBody(tool[i], arg[i].id, FetchResult(resps[i][2]))

(***************************************************************************)
(* C5.  No request is retried or followed up after a failure.  Each call   *)
(* of the fetch helper is exactly one GET; once a fetch has returned an    *)
(* error the invocation requests nothing more and returns that error.      *)
(* Details, types, item and the two listings issue exactly one GET, color  *)
(* and shape at most two, and only one when the first fetch failed or the  *)
(* creature has no species.url.                                            *)
(***************************************************************************)
C5_NoRetryNoFollowUp ==
  \A i \in Invocations :
    /\ pc[i] = "idle" => Len(reqs[i]) = 0
    /\ pc[i] = "fetch1" => Len(reqs[i]) = 1 /\ Len(resps[i]) = 0
    /\ pc[i] = "fetch2" => Len(reqs[i]) = 2 /\ Len(resps[i]) = 1
    /\ Done(i) => Len(reqs[i]) = Len(resps[i])
    /\ (Done(i) /\ tool[i] \notin SpeciesTools) => Len(reqs[i]) = 1
    /\ tool[i] \in SpeciesTools => Len(reqs[i]) <= 2
    /\ \A n \in 1..Len(resps[i]) :
         IsFetchError(FetchResult(resps[i][n])) =>
           /\ Len(reqs[i]) = n
           /\ pc[i] = "returned"
           /\ result[i] = FetchResult(resps[i][n])
    /\ (AnsweredObject(i, 1) /\ Dig(Dig(resps[i][1].body, "species"), "url") = JNull) =>
         Len(reqs[i]) = 1

C5_Witness ==
  \E i \in Invocations :
    /\ tool[i] = "get_pokemon_shape"
    /\ pc[i] = "returned"
    /\ Len(reqs[i]) = 2
    /\ resps[i][2].o = "status"
    /\ result[i] = FetchResult(resps[i][2])

(***************************************************************************)
(* C6.  Letter case, and for items spaces against hyphens, make no         *)
(* difference: two invocations of the same identifier-taking handler whose *)
(* identifiers differ only so, answered alike by the upstream, request the *)
(* same paths and return identical records; normalizing a normalized       *)
(* identifier changes nothing.                                             *)
(***************************************************************************)
CasePairs == {<<"P", "p">>, <<"I", "i">>, <<"B", "b">>}
SameLetter(c, d) == c = d \/ <<c, d>> \in CasePairs \/ <<d, c>> \in CasePairs
SameItemChar(c, d) == SameLetter(c, d) \/ {c, d} = {" ", "-"}

\* the identifiers of i and j differ at most in case (items: and in " " / "-")
SameIdentifier(i, j) ==
  LET x == PyStr(arg[i].id)
      y == PyStr(arg[j].id)
  IN /\ Len(x) = Len(y)
     /\ \A n \in 1..Len(x) :
          IF tool[i] = "get_item_details" THEN SameItemChar(x[n], y[n])
          ELSE SameLetter(x[n], y[n])

\* C6: same handler, identifiers equal up to case (and " " / "-" for items):
\* same first request, idempotent normalization, same record on same answers
C6_CaseAndSpacingIrrelevant ==
  \A i, j \in Invocations :
    ( /\ tool[i] \in IdTools
      /\ tool[j] = tool[i]
      /\ pc[i] # "idle" /\ pc[j] # "idle"
      /\ SameIdentifier(i, j) ) =>
        /\ reqs[i][1] = reqs[j][1]
        /\ PokemonIdentifier(JStr(PokemonIdentifier(arg[i].id))) = PokemonIdentifier(arg[i].id)
        /\ ItemIdentifier(JStr(ItemIdentifier(arg[i].id))) = ItemIdentifier(arg[i].id)
        /\ (Done(i) /\ Done(j) /\ resps[i] = resps[j]) => result[i] = result[j]

(***************************************************************************)
(* C7.  The sprite of creature details: the official artwork when present  *)
(* and not null, else sprites.front_default when present, else null, and   *)
(* always in a success record, however the upstream lacks them (sprites,   *)
(* other or official-artwork missing or null).                             *)
(***************************************************************************)
\* the creature answered to i is well formed but for its sprites
OnlySpritesVary(i) ==
  /\ tool[i] = "get_pokemon_details"
  /\ Done(i)
  /\ AnsweredObject(i, 1)
  /\ \E x \in SpritesValues : resps[i][1].body = Vary(Pikachu, "sprites", x)

PreferredSprite(body) ==
  LET official == Dig(Dig(Dig(Dig(body, "sprites"), "other"), "official-artwork"),
                      "front_default")
  IN IF official # JNull THEN official ELSE Dig(Dig(body, "sprites"), "front_default")

\* C7: a success record whose sprite_url is the preferred sprite, however the
\* sprites are lacking
C7_SpritePreference ==
  \A i \in Invocations :
    OnlySpritesVary(i) =>
      /\ pc[i] = "returned"
      /\ IsSuccessRecord(tool[i], result[i])
      /\ result[i].v["sprite_url"] = PreferredSprite(resps[i][1].body)

(***************************************************************************)
(* C8.  Item details: short_effect is that of the first effect entry, in   *)
(* upstream order, whose language.name is "en"; "N/A" when effect_entries  *)
(* is absent, empty or has no such entry; cost is the upstream cost, 0     *)
(* when the record has none.                                               *)
(***************************************************************************)
IsEnglish(e) == Dig(Dig(e, "language"), "name") = Tok("en") /\ IsObj(Dig(e, "language"))

\* what the claim says short_effect is, for the upstream item record
ClaimedShortEffect(body) ==
  LET ee == Dig(body, "effect_entries")
      entries == IF ee.k = "arr" THEN ee.v ELSE <<>>
      en == {n \in 1..Len(entries) : IsEnglish(entries[n])}
  IN IF en = {} THEN Tok("N/A")
     ELSE LET first == CHOOSE n \in en : \A m \in en : n <= m
          IN IF "short_effect" \in DOMAIN entries[first].v
             THEN entries[first].v["short_effect"] ELSE Tok("N/A")

\* an effect entry of the upstream's documented shape: an object whose
\* language, if any, is an object
EntryWellFormed(e) ==
  IsObj(e) /\ ("language" \in DOMAIN e.v => IsObj(e.v["language"]))

\* the item record answered to i is well formed, its effect_entries absent
\* or a list of well-formed entries
ItemWellFormed(i) ==
  /\ AnsweredObject(i, 1)
  /\ \E x \in EffectValues :
       /\ resps[i][1].body = Vary(PokeBall, "effect_entries", x)
       /\ x.k = "arr" => \A n \in 1..Len(x.v) : EntryWellFormed(x.v[n])
       /\ x.k \in {"arr", "missing"}

DigitValue(c) == CHOOSE d \in 0..9 : DigitChar(d) = c

RECURSIVE NatValue(_)
NatValue(s) ==
  IF Len(s) = 0 THEN 0
  ELSE 10 * NatValue(SubSeq(s, 1, Len(s) - 1)) + DigitValue(s[Len(s)])

\* the integer a decimal numeral in a path stands for
DecimalValue(s) == IF s[1] = "-" THEN 0 - NatValue(Tail(s)) ELSE NatValue(s)

\* the request of i is /pokemon?limit=<limit>&offset=<offset>
PathCarries(i, limit, offset) ==
  LET url == reqs[i][1]
      head == RequestUrl(<<"/pokemon", "?limit=">>)
      amp == {n \in 1..Len(url) : url[n] = "&offset="}
  IN /\ SubSeq(url, 1, Len(head)) = head
     /\ Cardinality(amp) = 1
     /\ LET n == CHOOSE m \in amp : TRUE
        IN /\ DecimalValue(SubSeq(url, Len(head) + 1, n - 1)) = limit
           /\ DecimalValue(SubSeq(url, n + 1, Len(url))) = offset

NoArguments(i) == arg[i].limit = Omitted /\ arg[i].offset = Omitted

\* i is a name listing that got a JSON object and returned a record without error
NamesListed(i) ==
  /\ tool[i] = "list_all_pokemon_names"
  /\ pc[i] = "returned"
  /\ AnsweredObject(i, 1)
  /\ "error" \notin DOMAIN result[i].v

UpstreamResults(i) ==
  LET r == Dig(resps[i][1].body, "results") IN IF r.k = "arr" THEN r.v ELSE <<>>

C9_PathAndCount(i) ==
  /\ pc[i] # "idle" =>
       /\ PathCarries(i, IF arg[i].limit = Omitted THEN 2000 ELSE arg[i].limit.v,
                         IF arg[i].offset = Omitted THEN 0 ELSE arg[i].offset.v)
       /\ NoArguments(i) =>
            reqs[i][1] = <<"https://pokeapi.co/api/v2", "/pokemon", "?limit=",
                           "2", "0", "0", "0", "&offset=", "0">>
  /\ NamesListed(i) =>
       /\ result[i].v["count"] = Dig(resps[i][1].body, "count")
       /\ \A n \in 1..Len(result[i].v["pokemon_names"].v) :
            /\ n <= Len(UpstreamResults(i))
            /\ result[i].v["pokemon_names"].v[n] = UpstreamResults(i)[n].v["name"]

Alone(t, a, rs) ==
  LET first == <<RequestUrl(FirstEndpoint(t, a))>> IN
  IF Len(rs) = 0 THEN [reqs |-> first, pc |-> "fetch1", result |-> JNull]
  ELSE IF t \notin SpeciesTools
  THEN LET r == DirectBody(t, FetchResult(rs[1]))
       IN [reqs |-> first, pc |-> IF IsExc(r) THEN "raised" ELSE "returned", result |-> r]
  ELSE LET st == SpeciesAfterFirst(FetchResult(rs[1])) IN
       IF st.step = "return"
       THEN LET r == SpeciesBody(t, a.id, st.val)
            IN [reqs |-> first, pc |-> IF IsExc(r) THEN "raised" ELSE "returned", result |-> r]
       ELSE LET both == Append(first, RequestUrl(st.endpoint)) IN
            IF Len(rs) = 1 THEN [reqs |-> both, pc |-> "fetch2", result |-> JNull]
            ELSE LET r == SpeciesBody(t, a.id, FetchResult(rs[2]))
                 IN [reqs |-> both, pc |-> IF IsExc(r) THEN "raised" ELSE "returned",
                     result |-> r]

\* C10: every invocation is where, and returns what, it would if run alone
C10_NoInterference ==
  \A i \in Invocations :
    pc[i] # "idle" =>
      [reqs |-> reqs[i], pc |-> pc[i], result |-> result[i]] = Alone(tool[i], arg[i], resps[i])

\* one invocation has returned after two fetches while another, of another
\* handler, is between its two fetches
C10_Witness ==
  \E i, j \in Invocations :
    /\ i # j
    /\ pc[i] = "returned" /\ Len(resps[i]) = 2
    /\ pc[j] = "fetch2"
    /\ tool[i] # tool[j]
    /\ arg[i] # arg[j]

=============================================================================
